---- MODULE Spec2Model ----
(***************************************************************************)
(* A model of the united-resolver repository.                              *)
(*                                                                         *)
(* Part I   CrossChainResolver (dist/resolver/CrossChainResolver.js) with  *)
(*          its OrderMonitor and EscrowExecutor (dist/services/...), the    *)
(*          frontend order source and the two chains as environment.       *)
(*          Specification: SpecCCR.                                         *)
(* Part II  Resolver (resolver/resolver.ts, the later version with         *)
(*          processOrders / withdrawMakerAsset) with OrderMonitorService.  *)
(*          Specification: SpecRes.                                         *)
(* Part III ProfitabilityAnalyzer (dist/services/ProfitabilityAnalyzer.js): *)
(*          analyzeOrder with its price and gas caches.                    *)
(*          Specification: SpecPA.                                          *)
(*                                                                         *)
(* Every await of the code is a point where other callbacks may run, so a  *)
(* handler is cut into one action per stretch of code between two awaits.  *)
(***************************************************************************)
EXTENDS Integers, Sequences, FiniteSets, TLC

(***************************************************************************)
(* Bounds of the model.                                                    *)
(***************************************************************************)
\* The wall clock (Date.now(), in ms) advances in steps of ClockStep, MaxTicks times at most
\* (time 0 is long past: Init is at ClockStep).
ClockStep == 300000
MaxTicks == 3
\* An order created at the frontend at time t carries deadline t + OrderLifetime.
OrderLifetime == 300000
\* The number of processNewOrders calls that may be in flight at once
\* (setInterval fires every 2 s whether or not the previous call returned).
NumPollers == 2

(***************************************************************************)
(* Program constants.                                                      *)
(***************************************************************************)
\* waitForEscrowConfirmations: const timeout = 300000
CONFIRMATION_TIMEOUT == 300000
\* shutdown: const timeout = 30000
SHUTDOWN_TIMEOUT == 30000
\* lockEvmEscrow: timelock = Math.floor(Date.now() / 1000) + 7200
EVM_TIMELOCK_SECONDS == 7200

Orders == {"0xorderA", "0xorderB"}
Pollers == 1..NumPollers
Sides == {"source", "destination"}

\* Chain ids. In the code an EVM chain id is a number and a Cosmos chain id a
\* string; the model writes both as strings and keeps the distinction here.
ChainIds == {"11155111", "cosmoshub-4"}
typeofString(chainId) == chainId \in {"cosmoshub-4", "osmosis-1"}

\* Secrets and their digests: the hashlock of an order is the digest of its secret.
Secrets == {"secretA", "secretB"}
Hash(secret) == IF secret = "secretA" THEN "hashA" ELSE "hashB"
SecretOf(o) == IF o = "0xorderA" THEN "secretA" ELSE "secretB"

VARIABLES
    now,                   \* Date.now(), ms
    workload,              \* which orders makers sign, which polling calls may overlap
    frontend,              \* the pending orders held by the frontend API: orderHash -> order
    lastCheckedTimestamp,  \* OrderMonitor.lastCheckedTimestamp
    isRunning,             \* CrossChainResolver.isRunning
    timers,                \* number of (poll, check) setInterval pairs created
    processedOrders,       \* CrossChainResolver.processedOrders (Set)
    activeOrders,          \* CrossChainResolver.activeOrders (Map orderHash -> order)
    poll,                  \* the processNewOrders calls in flight
    chk,                   \* the checkActiveOrders call in flight
    lockedEscrows,         \* chain: the (order, side) escrows a lock was submitted for
    refundLog,             \* chain actions: refunds submitted
    doneLog,               \* orchestrations that returned from executeAtomicSwap
    decisionLog,           \* the decisions analyzeOrder returned to analyzeAndExecuteOrder
    shut,                  \* the CrossChainResolver.shutdown call
    accepted,              \* the orders submitOrder answered success = true for
    providerCache,         \* Provider.providerCache (Map chainId -> provider)
    contractCache,         \* Contract.contractCache (Map chainId -> client)
    handleLog,             \* the providers and contract clients created
    handleCalls,           \* the getProvider / getContract calls in flight
    activeSwaps,           \* Resolver.activeSwaps (Map hashlock -> Swap)
    calls,                 \* the Resolver.processOrders calls in flight
    wd,                    \* the Resolver.withdrawMakerAsset call in flight
    pollInterval,          \* OrderMonitorService.pollInterval is set (not null)
    withdrawLog,           \* chain actions: withdraw submitted
    cancelLog,             \* cancelSwapOnSource / cancelSwapOnDestination invocations
    srcEscrows,            \* hashlocks of the source escrows deployed and not withdrawn from
    priceCache,            \* ProfitabilityAnalyzer.priceCache (Map key -> {price, timestamp})
    gasCache,              \* ProfitabilityAnalyzer.gasCache (Map key -> {estimate, timestamp})
    analysis               \* the analyzeOrder call in flight, or its returned decision

logs == <<lockedEscrows, refundLog, doneLog>>
ccrVars == <<workload, frontend, lastCheckedTimestamp, isRunning, timers, processedOrders,
             activeOrders, poll, chk, logs, decisionLog, shut, accepted>>
resVars == <<activeSwaps, calls, wd, pollInterval, withdrawLog, cancelLog, srcEscrows>>
paVars == <<priceCache, gasCache, analysis>>
hVars == <<providerCache, contractCache, handleLog, handleCalls>>
vars == <<now, ccrVars, resVars, paVars, hVars>>

EmptyMap == [x \in {} |-> x]

\* The arguments of a lock action (NoLock: none submitted).
NoLock == [submitted |-> FALSE, htlc |-> FALSE, hashlock |-> "", timelock |-> 0]

\* A processNewOrders call: its place in the code, the `since` of its request,
\* the orders still to go through (the head is the one being handled), and the
\* locals of executeAtomicSwap for that order: the status on chain of the two
\* lock transactions, what each lock was submitted with, the start of the
\* confirmation wait and the secret drawn by revealSecretAndClaim.
IdlePoll == [pc |-> "idle", since |-> 0, batch |-> <<>>, srcTx |-> "none",
             dstTx |-> "none", srcLock |-> NoLock, dstLock |-> NoLock,
             startTime |-> 0, secret |-> "", error |-> ""]
\* The checkActiveOrders call: idle, or awaiting handleFailedSwap for `cur`
\* (cancelFailed: a refund it submitted was rejected or reverted, which
\* cancelEvmEscrow catches and logs).
IdleChk == [pc |-> "idle", currentTime |-> 0, cur |-> "", cancelFailed |-> FALSE]
\* The shutdown call: not made, waiting for the active orders to finish, going
\* through the remaining ones (forced: those handleFailedSwap was called for),
\* or returned.
IdleShut == [pc |-> "idle", startTime |-> 0, forced |-> {}]

\* The workloads explored: two orders met by one processNewOrders call at a
\* time, one order met by overlapping processNewOrders calls, one order met by
\* one call in a process that receives SIGINT and exits, or the same with a
\* caller that calls shutdown and later startMonitoring again. posts: the
\* orders sent to POST /api/orders.
Workloads ==
    {[orders |-> Orders, pollers |-> {1}, sigint |-> FALSE, restart |-> FALSE, posts |-> {}],
     [orders |-> {"0xorderA"}, pollers |-> Pollers, sigint |-> FALSE, restart |-> FALSE,
      posts |-> {}],
     [orders |-> {"0xorderA"}, pollers |-> {1}, sigint |-> TRUE, restart |-> FALSE,
      posts |-> {"0xorderC"}],
     [orders |-> {"0xorderA"}, pollers |-> {1}, sigint |-> TRUE, restart |-> TRUE,
      posts |-> {}]}

InitCCR ==
    /\ now = ClockStep
    /\ workload \in Workloads
    /\ frontend = EmptyMap
    /\ lastCheckedTimestamp = 0
    /\ isRunning = FALSE
    /\ timers = 0
    /\ processedOrders = {}
    /\ activeOrders = EmptyMap
    /\ poll = [p \in Pollers |-> IdlePoll]
    /\ chk = IdleChk
    /\ lockedEscrows = {}
    /\ refundLog = {}
    /\ doneLog = {}
    /\ decisionLog = {}
    /\ shut = IdleShut
    /\ accepted = {}

\* Map.set / Map.delete on a function with a finite domain.
MapSet(m, k, v) == [x \in (DOMAIN m) \cup {k} |-> IF x = k THEN v ELSE m[x]]
MapDelete(m, k) == [x \in (DOMAIN m) \ {k} |-> m[x]]

\* All orderings of a finite set, as sequences without repetition.
RECURSIVE Perms(_)
Perms(S) ==
    IF S = {} THEN {<<>>}
    ELSE UNION {{<<x>> \o s : s \in Perms(S \ {x})} : x \in S}

(***************************************************************************)
(* Environment: the clock, the frontend, the chains.                       *)
(***************************************************************************)
Tick ==
    /\ now + ClockStep <= MaxTicks * ClockStep
    /\ now' = now + ClockStep
    /\ UNCHANGED <<workload, frontend, lastCheckedTimestamp, isRunning, timers, processedOrders, activeOrders, poll, chk, logs, decisionLog, shut, accepted, resVars, paVars, hVars>>

\* A maker signs an order at the frontend; it is pending from then on.
CreateOrder ==
    \E o \in workload.orders \ DOMAIN frontend, s \in ChainIds, d \in ChainIds :
        /\ frontend' = MapSet(frontend, o,
               [orderHash |-> o, srcChainId |-> s, dstChainId |-> d,
                deadline |-> now + OrderLifetime, secretHash |-> Hash(SecretOf(o)),
                createdAt |-> now])
        /\ UNCHANGED <<now, workload, lastCheckedTimestamp, isRunning, timers, processedOrders, activeOrders, poll, chk, logs, decisionLog, shut, accepted, resVars, paVars, hVars>>

\* An EVM lock transaction that was submitted is mined, successfully or
\* reverted (the model follows a transaction while the try block of the
\* executeAtomicSwap that submitted it can still read its status).
MineTransaction ==
    \E p \in Pollers, side \in Sides, st \in {"success", "reverted"} :
        /\ poll[p].pc \in {"dstLocking", "waiting", "claiming", "claimSent"}
        /\ IF side = "source" THEN poll[p].srcTx = "pending" ELSE poll[p].dstTx = "pending"
        /\ poll' = [poll EXCEPT ![p] =
               IF side = "source" THEN [@ EXCEPT !.srcTx = st] ELSE [@ EXCEPT !.dstTx = st]]
        /\ UNCHANGED <<now, workload, frontend, lastCheckedTimestamp, isRunning, timers, processedOrders, activeOrders, chk, logs, decisionLog, shut, accepted, resVars, paVars, hVars>>

(***************************************************************************)
(* CrossChainResolver.                                                     *)
(***************************************************************************)
\* startMonitoring, which main() calls once when the process starts (there a
\* shutdown is followed by process.exit); another caller may call it again
\* once shutdown was called.
startMonitoring ==
    /\ shut.pc = "idle" \/ workload.restart
    /\ ~isRunning
    /\ isRunning' = TRUE
    /\ timers' = timers + 1
    /\ UNCHANGED <<now, workload, frontend, lastCheckedTimestamp, processedOrders, activeOrders, poll, chk, logs, decisionLog, shut, accepted, resVars, paVars, hVars>>

\* The 2 s interval fires: processNewOrders starts and sends the fetch request,
\* which carries since = lastCheckedTimestamp as it is now.
processNewOrders(p) ==
    /\ p \in workload.pollers
    /\ timers > 0
    /\ isRunning
    /\ poll[p].pc = "idle"
    /\ poll' = [poll EXCEPT ![p] = [IdlePoll EXCEPT !.pc = "fetching",
                                                   !.since = lastCheckedTimestamp]]
    /\ UNCHANGED <<now, workload, frontend, lastCheckedTimestamp, isRunning, timers, processedOrders, activeOrders, chk, logs, decisionLog, shut, accepted, resVars, paVars, hVars>>

\* The pending orders the frontend returns for a request with this `since`.
PendingSince(since) == {o \in DOMAIN frontend : frontend[o].createdAt > since}

\* The for loop of processNewOrders runs without suspension over the orders
\* that processedOrders has, up to the first one it has not (whose analysis is
\* awaited) or to the end of the batch (the call returns).
RECURSIVE SkipProcessed(_, _)
SkipProcessed(batch, processed) ==
    IF batch = <<>> THEN <<>>
    ELSE IF Head(batch) \in processed THEN SkipProcessed(Tail(batch), processed)
    ELSE batch

\* Poller q going through `batch` with `processed` the processedOrders of the moment.
Loop(q, batch, processed) ==
    LET rest == SkipProcessed(batch, processed) IN
    IF rest = <<>> THEN IdlePoll
    ELSE [IdlePoll EXCEPT !.pc = "analyzing", !.batch = rest]

\* fetchPendingOrders returns the orders created after `since`, or [] when the
\* request failed, and the loop starts.
fetchPendingOrders(p) ==
    /\ poll[p].pc = "fetching"
    /\ \E ok \in BOOLEAN :
        LET orders == IF ok THEN PendingSince(poll[p].since) ELSE {} IN
        /\ lastCheckedTimestamp' = IF orders # {} THEN now ELSE lastCheckedTimestamp
        /\ \E b \in Perms(orders) :
               poll' = [poll EXCEPT ![p] = Loop(@, b, processedOrders)]
    /\ UNCHANGED <<now, workload, frontend, isRunning, timers, processedOrders, activeOrders, chk,
                   logs, decisionLog, shut, accepted, resVars, paVars, hVars>>

\* The order at the head of the batch is done with: processedOrders.add(orderHash)
\* has run (processed is the set after it) and the loop goes on.
NextOrder(q, processed) == Loop(q, Tail(q.batch), processed)

\* The test of analyzeAndExecuteOrder left out: it never returns early.
returnsEarlyNever(decision) == FALSE

\* analyzeAndExecuteOrder: if (!decision.shouldFill) return
returnsEarly(decision) == ~decision.shouldFill

\* analyzeAndExecuteOrder after analyzeOrder returned its decision (which rests
\* on prices fetched at that moment).
analyzeAndExecuteOrder(p) ==
    /\ poll[p].pc = "analyzing"
    /\ LET o == Head(poll[p].batch) IN
       \E shouldFill \in BOOLEAN :
          LET decision == [orderHash |-> o, shouldFill |-> shouldFill] IN
          /\ decisionLog' = decisionLog \cup {decision}
          /\ IF ~returnsEarly(decision)
             THEN /\ activeOrders' = MapSet(activeOrders, o, frontend[o])
                  /\ poll' = [poll EXCEPT ![p].pc = "srcLocking"]
                  /\ UNCHANGED processedOrders
             ELSE /\ processedOrders' = processedOrders \cup {o}
                  /\ poll' = [poll EXCEPT ![p] = NextOrder(@, processedOrders \cup {o})]
                  /\ UNCHANGED activeOrders
    /\ UNCHANGED <<now, workload, frontend, lastCheckedTimestamp, isRunning, timers, chk, logs, shut, accepted, resVars, paVars, hVars>>

\* validateOrder does not throw, for the fields an order has here: the deadline
\* is ahead and both chain ids are supported.
SupportedChains == {"1", "11155111", "56", "137", "cosmoshub-4", "osmosis-1"}
validateOrder(order) ==
    /\ ~(order.deadline <= now)
    /\ order.srcChainId \in SupportedChains
    /\ order.dstChainId \in SupportedChains

\* POST /api/orders -> OrderMonitor.submitOrder: validateOrder, log lines, and
\* the answer (success with 'queued for processing', or the validation error).
\* Nothing is stored.
submitOrder ==
    /\ \E o \in workload.posts, s \in ChainIds, d \in ChainIds,
          deadline \in {now, now + OrderLifetime} :
          LET order == [orderHash |-> o, srcChainId |-> s, dstChainId |-> d,
                        deadline |-> deadline] IN
          accepted' = IF validateOrder(order) THEN accepted \cup {o} ELSE accepted
    /\ UNCHANGED <<now, workload, frontend, lastCheckedTimestamp, isRunning, timers, processedOrders,
                   activeOrders, poll, chk, logs, decisionLog, shut, resVars, paVars, hVars>>

(***************************************************************************)
(* EscrowExecutor.                                                         *)
(***************************************************************************)
\* The escrow contract address configured for an EVM chain ("" when none).
getEscrowAddress(chainId) ==
    IF chainId = "11155111" THEN "0x718B8f5c8C1A9bd20b8f3cB347b7CD661A7694B1" ELSE ""

\* The chain action lockEvmEscrow submits:
\* lockFunds(order.secretHash, token, amount, timelock, recipient).
lockEvmEscrow(order, type) ==
    [submitted |-> TRUE, htlc |-> TRUE, hashlock |-> order.secretHash,
     timelock |-> (now \div 1000) + EVM_TIMELOCK_SECONDS]

\* The chain action lockCosmosEscrow submits: a bank MsgSend to the escrow
\* address, which carries neither a hashlock nor a timelock.
lockCosmosEscrow(order, type) ==
    [submitted |-> TRUE, htlc |-> FALSE, hashlock |-> "", timelock |-> 0]

\* lockSourceEscrow / lockDestinationEscrow: the chain family is chosen by the
\* type of the chain id.
lockEscrow(order, type) ==
    LET chainId == IF type = "source" THEN order.srcChainId ELSE order.dstChainId IN
    IF typeofString(chainId) THEN lockCosmosEscrow(order, type)
    ELSE lockEvmEscrow(order, type)

\* The handle a successful lock returns: an EVM transaction is 'pending', a
\* Cosmos one was broadcast and included (status 'confirmed', hash without 0x).
lockHandle(order, type) ==
    LET chainId == IF type = "source" THEN order.srcChainId ELSE order.dstChainId IN
    IF typeofString(chainId) THEN "cosmos" ELSE "pending"

\* A lock can be submitted on a Cosmos chain, and on an EVM chain for which an
\* escrow contract is configured (getEscrowAddress throws otherwise).
escrowAvailable(order, type) ==
    LET chainId == IF type = "source" THEN order.srcChainId ELSE order.dstChainId IN
    typeofString(chainId) \/ getEscrowAddress(chainId) # ""

\* Whether a transaction hash starts with "0x" (an EVM transaction).
startsWith0x(tx) == tx \in {"pending", "success", "reverted"}

\* isTransactionConfirmed(txHash, chain) when the receipt lookup itself succeeds.
isTransactionConfirmed(tx, chain) ==
    IF chain = "source" /\ startsWith0x(tx) THEN tx = "success" ELSE TRUE

\* The entry refundLog gets for a refund(order.secretHash) submitted on `type`.
\* seq counts the refunds submitted on that escrow before this one; locked
\* tells whether a lock was ever submitted on it.
refundEntry(order, type, log) ==
    [order |-> order.orderHash, side |-> type,
     seq |-> Cardinality({r \in log : r.order = order.orderHash /\ r.side = type}),
     locked |-> <<order.orderHash, type>> \in lockedEscrows]

\* cancelEscrows, source half: refund on the source escrow if it is an EVM chain.
cancelSource(order, log) ==
    IF ~typeofString(order.srcChainId)
    THEN log \cup {refundEntry(order, "source", log)}
    ELSE log

\* cancelEscrows, destination half.
cancelDestination(order, log) ==
    IF ~typeofString(order.dstChainId)
    THEN log \cup {refundEntry(order, "destination", log)}
    ELSE log

(***************************************************************************)
(* executeAtomicSwap, one action per await.                                *)
(***************************************************************************)
\* A step of the try block threw: the catch block runs and handleFailedSwap is
\* called. Of the locals only which locks had returned is kept.
Thrown(q, error) ==
    [IdlePoll EXCEPT !.pc = "cancelSrc", !.batch = q.batch, !.error = error,
                     !.srcTx = IF q.srcTx = "none" THEN "none" ELSE "sent",
                     !.dstTx = IF q.dstTx = "none" THEN "none" ELSE "sent"]

\* Step 1: lockSourceEscrow returned or threw.
lockSourceEscrow(p) ==
    /\ poll[p].pc = "srcLocking"
    /\ LET order == frontend[Head(poll[p].batch)] IN
       \E ok \in BOOLEAN :
          IF ok /\ escrowAvailable(order, "source")
          THEN /\ lockedEscrows' = lockedEscrows \cup {<<order.orderHash, "source">>}
               /\ poll' = [poll EXCEPT ![p].pc = "dstLocking",
                                       ![p].srcTx = lockHandle(order, "source"),
                                       ![p].srcLock = lockEscrow(order, "source")]
          ELSE /\ poll' = [poll EXCEPT ![p] = Thrown(@, "lock rejected")]
               /\ UNCHANGED lockedEscrows
    /\ UNCHANGED <<now, workload, frontend, lastCheckedTimestamp, isRunning, timers, processedOrders,
                   activeOrders, chk, refundLog, doneLog, decisionLog, shut, accepted, resVars, paVars, hVars>>

\* Step 2: lockDestinationEscrow returned or threw; on success the wait starts.
lockDestinationEscrow(p) ==
    /\ poll[p].pc = "dstLocking"
    /\ LET order == frontend[Head(poll[p].batch)] IN
       \E ok \in BOOLEAN :
          IF ok /\ escrowAvailable(order, "destination")
          THEN /\ lockedEscrows' = lockedEscrows \cup {<<order.orderHash, "destination">>}
               /\ poll' = [poll EXCEPT ![p].pc = "waiting",
                                       ![p].dstTx = lockHandle(order, "destination"),
                                       ![p].dstLock = lockEscrow(order, "destination"),
                                       ![p].startTime = now]
          ELSE /\ poll' = [poll EXCEPT ![p] = Thrown(@, "lock rejected")]
               /\ UNCHANGED lockedEscrows
    /\ UNCHANGED <<now, workload, frontend, lastCheckedTimestamp, isRunning, timers, processedOrders,
                   activeOrders, chk, refundLog, doneLog, decisionLog, shut, accepted, resVars, paVars, hVars>>

\* The wait never running out.
withinWaitBoundAlways(startTime) == TRUE

\* waitForEscrowConfirmations: while (Date.now() - startTime < timeout)
withinWaitBound(startTime) == now - startTime < CONFIRMATION_TIMEOUT

\* Step 3: one round of the polling loop that ends the wait: both reported
\* confirmed within the bound, or the bound exceeded (a round that finds a
\* transaction unconfirmed sleeps 5 s and changes nothing).
waitForEscrowConfirmations(p) ==
    /\ poll[p].pc = "waiting"
    /\ IF withinWaitBound(poll[p].startTime)
       THEN /\ isTransactionConfirmed(poll[p].srcTx, "source")
            /\ isTransactionConfirmed(poll[p].dstTx, "destination")
            /\ poll' = [poll EXCEPT ![p].pc = "claiming"]
       ELSE poll' = [poll EXCEPT ![p] = Thrown(@, "Escrow confirmations timed out")]
    /\ UNCHANGED <<now, workload, frontend, lastCheckedTimestamp, isRunning, timers, processedOrders,
                   activeOrders, chk, logs, decisionLog, shut, accepted, resVars, paVars, hVars>>

\* Step 4: revealSecretAndClaim draws a fresh secret (randomBytes) and calls
\* claimFromEscrow on the source side: a claimFunds(secret) transaction on an
\* EVM chain, a log line on a Cosmos chain.
revealSecretAndClaim(p) ==
    /\ poll[p].pc = "claiming"
    /\ \E secret \in Secrets :
          poll' = [poll EXCEPT ![p].pc = "claimSent", ![p].secret = secret]
    /\ UNCHANGED <<now, workload, frontend, lastCheckedTimestamp, isRunning, timers, processedOrders,
                   activeOrders, chk, logs, decisionLog, shut, accepted, resVars, paVars, hVars>>

\* claimFromEscrow returned (the swap is complete: activeOrders.delete, and back
\* in processNewOrders processedOrders.add) or threw (claimFunds or tx.wait
\* rejected: the catch block runs). The simulated Cosmos claim cannot throw.
claimFromEscrow(p) ==
    /\ poll[p].pc = "claimSent"
    /\ LET o == Head(poll[p].batch)
           order == frontend[o] IN
       \E ok \in BOOLEAN :
          IF typeofString(order.srcChainId) \/ ok
          THEN /\ doneLog' = doneLog \cup
                     {[order |-> o, result |-> "completed",
                       srcLocked |-> TRUE, dstLocked |-> TRUE]}
               /\ activeOrders' = MapDelete(activeOrders, o)
               /\ processedOrders' = processedOrders \cup {o}
               /\ poll' = [poll EXCEPT ![p] = NextOrder(@, processedOrders \cup {o})]
          ELSE /\ poll' = [poll EXCEPT ![p] = Thrown(@, "claim rejected")]
               /\ UNCHANGED <<doneLog, activeOrders, processedOrders>>
    /\ UNCHANGED <<now, workload, frontend, lastCheckedTimestamp, isRunning, timers, chk,
                   lockedEscrows, refundLog, decisionLog, shut, accepted, resVars, paVars, hVars>>

\* catch: handleFailedSwap -> cancelEscrows, source half.
handleFailedSwap(p) ==
    /\ poll[p].pc = "cancelSrc"
    /\ refundLog' = cancelSource(frontend[Head(poll[p].batch)], refundLog)
    /\ poll' = [poll EXCEPT ![p].pc = "cancelDst"]
    /\ UNCHANGED <<now, workload, frontend, lastCheckedTimestamp, isRunning, timers, processedOrders,
                   activeOrders, chk, lockedEscrows, doneLog, decisionLog, shut, accepted, resVars, paVars, hVars>>

\* cancelEscrows, destination half; then activeOrders.delete and, back in
\* processNewOrders, processedOrders.add.
cancelEscrows(p) ==
    /\ poll[p].pc = "cancelDst"
    /\ LET o == Head(poll[p].batch) IN
       /\ refundLog' = cancelDestination(frontend[o], refundLog)
       /\ doneLog' = doneLog \cup
              {[order |-> o, result |-> "failed",
                srcLocked |-> poll[p].srcTx # "none", dstLocked |-> poll[p].dstTx # "none"]}
       /\ activeOrders' = MapDelete(activeOrders, o)
       /\ processedOrders' = processedOrders \cup {o}
       /\ poll' = [poll EXCEPT ![p] = NextOrder(@, processedOrders \cup {o})]
    /\ UNCHANGED <<now, workload, frontend, lastCheckedTimestamp, isRunning, timers, chk,
                   lockedEscrows, decisionLog, shut, accepted, resVars, paVars, hVars>>

(***************************************************************************)
(* checkActiveOrders (the 5 s interval).                                   *)
(***************************************************************************)
\* Whether checkActiveOrders takes the order for expired.
orderExpired(currentTime, order) == currentTime > order.deadline

\* The entries of the live Map the loop of checkActiveOrders still cancels: an
\* entry it passed without cancelling is not expired at currentTime, and one it
\* cancelled is in the Map again only if it was set again, and is then iterated
\* again.
ExpiredActive(currentTime) ==
    {o \in DOMAIN activeOrders : orderExpired(currentTime, activeOrders[o])}

\* Whether a refund of cancelEscrows(order) fails: either way when at least one
\* is submitted (an EVM side), never when none is.
RefundOutcomes(order) ==
    IF typeofString(order.srcChainId) /\ typeofString(order.dstChainId)
    THEN {FALSE} ELSE BOOLEAN

\* The 5 s interval fires and the loop reaches an expired order: handleFailedSwap
\* is called for it (cancelEscrows submits the refunds) and awaited. A run that
\* finds no expired order changes nothing.
checkActiveOrders ==
    /\ timers > 0
    /\ isRunning
    /\ chk.pc = "idle"
    /\ \E o \in ExpiredActive(now) :
          /\ refundLog' = cancelDestination(activeOrders[o],
                              cancelSource(activeOrders[o], refundLog))
          /\ \E failed \in RefundOutcomes(activeOrders[o]) :
                chk' = [pc |-> "deleting", currentTime |-> now, cur |-> o,
                        cancelFailed |-> failed]
    /\ UNCHANGED <<now, workload, frontend, lastCheckedTimestamp, isRunning, timers, processedOrders,
                   activeOrders, poll, lockedEscrows, doneLog, decisionLog, shut, accepted, resVars, paVars, hVars>>

\* handleFailedSwap returned: this.activeOrders.delete(orderHash), and the loop
\* goes on to the next expired entry or ends.
checkActiveOrdersDelete ==
    /\ chk.pc = "deleting"
    /\ LET remaining == MapDelete(activeOrders, chk.cur)
           todo == {o \in DOMAIN remaining : orderExpired(chk.currentTime, remaining[o])} IN
       /\ activeOrders' = remaining
       /\ IF todo = {}
          THEN /\ chk' = IdleChk
               /\ UNCHANGED refundLog
          ELSE \E o \in todo :
                  /\ refundLog' = cancelDestination(remaining[o],
                                      cancelSource(remaining[o], refundLog))
                  /\ \E failed \in RefundOutcomes(remaining[o]) :
                        chk' = [chk EXCEPT !.cur = o, !.cancelFailed = failed]
    /\ UNCHANGED <<now, workload, frontend, lastCheckedTimestamp, isRunning, timers, processedOrders,
                   poll, lockedEscrows, doneLog, decisionLog, shut, accepted, resVars, paVars, hVars>>

(***************************************************************************)
(* getStatus and the status route.                                         *)
(***************************************************************************)
\* hash.slice(0, 10)
slice10(hash) == SubSeq(hash, 1, IF Len(hash) < 10 THEN Len(hash) ELSE 10)

\* CrossChainResolver.getStatus (activeOrders: the keys cut to 10 characters).
getStatus ==
    [isRunning |-> isRunning,
     processedOrdersCount |-> Cardinality(processedOrders),
     activeOrdersCount |-> Cardinality(DOMAIN activeOrders),
     activeOrders |-> {slice10(hash) : hash \in DOMAIN activeOrders}]

\* The order hashes a client asks the status of: those of the orders, and one
\* no order has.
QueryHashes == Orders \cup {"0xorderC"}

\* GET /api/orders/:orderHash: the status field of the reply.
orderStatus(orderHash) ==
    LET isActive == \E hash \in getStatus.activeOrders : hash = slice10(orderHash) IN
    IF isActive THEN "executing" ELSE "completed"

(***************************************************************************)
(* shutdown.                                                               *)
(***************************************************************************)
\* shutdown is called (on SIGINT, after startMonitoring): isRunning = false and
\* the wait for the active orders starts.
shutdown ==
    /\ workload.sigint
    /\ shut.pc = "idle"
    /\ timers > 0
    /\ isRunning' = FALSE
    /\ shut' = [pc |-> "waiting", startTime |-> now, forced |-> {}]
    /\ UNCHANGED <<now, workload, frontend, lastCheckedTimestamp, timers, processedOrders,
                   activeOrders, poll, chk, logs, decisionLog, accepted, resVars, paVars, hVars>>

\* while (this.activeOrders.size > 0 && (Date.now() - startTime) < timeout)
shutdownWaits(startTime) ==
    DOMAIN activeOrders # {} /\ now - startTime < SHUTDOWN_TIMEOUT

\* The wait is over and the for loop over the live activeOrders reaches an
\* entry: handleFailedSwap(order, 'Resolver shutdown') is called for it
\* (cancelEscrows submits the refunds) and awaited. Nothing is deleted from
\* activeOrders.
shutdownForceCleanup ==
    /\ shut.pc \in {"waiting", "cleaning"}
    /\ shut.pc = "waiting" => ~shutdownWaits(shut.startTime)
    /\ \E o \in DOMAIN activeOrders \ shut.forced :
          /\ refundLog' = cancelDestination(activeOrders[o],
                              cancelSource(activeOrders[o], refundLog))
          /\ shut' = [shut EXCEPT !.pc = "cleaning", !.forced = @ \cup {o}]
    /\ UNCHANGED <<now, workload, frontend, lastCheckedTimestamp, isRunning, timers, processedOrders,
                   activeOrders, poll, chk, lockedEscrows, doneLog, decisionLog, accepted, resVars, paVars, hVars>>

\* The for loop has no entry left: shutdown returns.
shutdownReturn ==
    /\ shut.pc \in {"waiting", "cleaning"}
    /\ shut.pc = "waiting" => ~shutdownWaits(shut.startTime)
    /\ DOMAIN activeOrders \ shut.forced = {}
    /\ shut' = [IdleShut EXCEPT !.pc = "returned"]
    /\ UNCHANGED <<now, workload, frontend, lastCheckedTimestamp, isRunning, timers, processedOrders,
                   activeOrders, poll, chk, logs, decisionLog, accepted, resVars, paVars, hVars>>

(***************************************************************************)
(* ProfitabilityAnalyzer (analyzeOrder and what it calls).                 *)
(***************************************************************************)
\* class fields
CACHE_TTL == 30000
MIN_PROFIT_USD == 5
\* MIN_PROFIT_MARGIN = 0.5 (percent), in tenths of a percent
MIN_PROFIT_MARGIN_TENTHS == 5

\* Ticks of CACHE_TTL the analyzer's clock makes.
MaxCacheTicks == 2

\* JavaScript numbers: USD amounts are counted in cents (the inputs are multiples
\* of half a dollar, which floating point represents exactly), and NaN is a
\* value of its own.
NaN == [nan |-> TRUE, v |-> 0]
Num(v) == [nan |-> FALSE, v |-> v]
Plus(a, b) == IF a.nan \/ b.nan THEN NaN ELSE Num(a.v + b.v)
Minus(a, b) == IF a.nan \/ b.nan THEN NaN ELSE Num(a.v - b.v)
\* amount (cents) * price (whole USD)
Times(a, price) == IF a.nan THEN NaN ELSE Num(a.v * price)
\* a < b: false when either is NaN
LessThan(a, b) == ~a.nan /\ ~b.nan /\ a.v < b.v

\* (netProfitUsd / srcAmountUsd) * 100 < MIN_PROFIT_MARGIN, with the quotient's
\* sign rules and x/0 = +-Infinity, 0/0 = NaN.
marginBelowMinimum(netProfitUsd, srcAmountUsd) ==
    /\ ~netProfitUsd.nan
    /\ ~srcAmountUsd.nan
    /\ IF srcAmountUsd.v > 0
       THEN netProfitUsd.v * 1000 < MIN_PROFIT_MARGIN_TENTHS * srcAmountUsd.v
       ELSE IF srcAmountUsd.v < 0
       THEN netProfitUsd.v * 1000 > MIN_PROFIT_MARGIN_TENTHS * srcAmountUsd.v
       ELSE netProfitUsd.v < 0

\* The token of the orders on a chain, and the key of its price in priceCache
\* (`${chainId}-${tokenAddress}`).
TokenOf(chainId) ==
    IF typeofString(chainId) THEN "uatom" ELSE "0xC02aaA39b223FE8D0A0e5C4F27eAD9083C756Cc2"
priceKey(chainId) == <<chainId, TokenOf(chainId)>>

\* The key of an estimate in gasCache (`gas-${srcChainId}-${dstChainId}`).
gasKey(order) == <<"gas", order.srcChainId, order.dstChainId>>

\* The price a successful fetchTokenPrice returns, and the fallback of
\* getTokenPrice, in whole USD.
FetchedPrice == 2
FallbackPrice == 1
\* fetchCosmosTokenPrice for an unknown denom (return 1), and both fetch
\* functions when the response carries no price (response.data[coinId]?.usd || 1).
DefaultPrice == 1

\* estimateChainGasCost(chainId, operation).gasCostUsd, in cents.
estimateChainGasCost(chainId, operation) ==
    IF typeofString(chainId) THEN 50
    ELSE IF operation = "escrow_claim" THEN 200 ELSE 300

\* The estimate estimateGasCosts builds from three estimateChainGasCost calls.
gasEstimate(order) ==
    LET sourceGas == estimateChainGasCost(order.srcChainId, "escrow_lock")
        destGas == estimateChainGasCost(order.dstChainId, "escrow_lock")
        claimGas == estimateChainGasCost(order.srcChainId, "escrow_claim") IN
    [sourceGasUsd |-> sourceGas, destinationGasUsd |-> destGas, claimGasUsd |-> claimGas,
     totalGasUsd |-> sourceGas + destGas + claimGas]

\* A fallback estimate of no cost.
fallbackGasEstimateZero ==
    [sourceGasUsd |-> 0, destinationGasUsd |-> 0, claimGasUsd |-> 0, totalGasUsd |-> 0]

\* The fallback estimate of estimateGasCosts.
fallbackGasEstimate ==
    [sourceGasUsd |-> 300, destinationGasUsd |-> 50, claimGasUsd |-> 200, totalGasUsd |-> 550]

\* checkLiquidityAvailability
checkLiquidityAvailability(order) ==
    [hasSourceLiquidity |-> TRUE, hasDestinationLiquidity |-> TRUE]

\* shouldFillOrder
shouldFillOrder(netProfitUsd, srcAmountUsd, liquidityCheck) ==
    IF LessThan(netProfitUsd, Num(MIN_PROFIT_USD * 100)) THEN FALSE
    ELSE IF marginBelowMinimum(netProfitUsd, srcAmountUsd) THEN FALSE
    ELSE IF ~liquidityCheck.hasSourceLiquidity \/ ~liquidityCheck.hasDestinationLiquidity
    THEN FALSE
    ELSE TRUE

\* getRejectReason
getRejectReason(netProfitUsd, srcAmountUsd, liquidityCheck) ==
    IF LessThan(netProfitUsd, Num(MIN_PROFIT_USD * 100)) THEN "Insufficient profit"
    ELSE IF marginBelowMinimum(netProfitUsd, srcAmountUsd) THEN "Low margin"
    ELSE IF ~liquidityCheck.hasDestinationLiquidity THEN "Insufficient destination liquidity"
    ELSE "Unknown rejection reason"

\* Steps 2 to 6 of analyzeOrder: the decision made from the two prices and the
\* gas estimate.
decide(order, srcPrice, dstPrice, gas) ==
    LET srcAmountUsd == Times(order.srcAmount, srcPrice.priceUsd)
        dstAmountUsd == Times(order.dstAmount, dstPrice.priceUsd)
        totalGasCostUsd == gas.sourceGasUsd + gas.destinationGasUsd
        grossProfitUsd == Minus(srcAmountUsd, dstAmountUsd)
        netProfitUsd == Minus(grossProfitUsd, Num(totalGasCostUsd))
        liquidityCheck == checkLiquidityAvailability(order)
        shouldFill == shouldFillOrder(netProfitUsd, srcAmountUsd, liquidityCheck) IN
    [shouldFill |-> shouldFill,
     reason |-> IF shouldFill THEN "Profitable order"
                ELSE getRejectReason(netProfitUsd, srcAmountUsd, liquidityCheck),
     expectedProfitUsd |-> netProfitUsd,
     srcAmountUsd |-> srcAmountUsd,
     dstAmountUsd |-> dstAmountUsd,
     estimatedGasCost |-> totalGasCostUsd,
     liquidityStatus |-> liquidityCheck]

\* The catch block of analyzeOrder returning a decision to fill.
errorDecisionFilling ==
    [shouldFill |-> TRUE, reason |-> "Profitable order", expectedProfitUsd |-> Num(0),
     srcAmountUsd |-> Num(0), dstAmountUsd |-> Num(0), estimatedGasCost |-> 0,
     liquidityStatus |-> [hasSourceLiquidity |-> FALSE, hasDestinationLiquidity |-> FALSE]]

\* The decision the catch block of analyzeOrder returns.
errorDecision ==
    [shouldFill |-> FALSE, reason |-> "Analysis error", expectedProfitUsd |-> Num(0),
     srcAmountUsd |-> Num(0), dstAmountUsd |-> Num(0), estimatedGasCost |-> 0,
     liquidityStatus |-> [hasSourceLiquidity |-> FALSE, hasDestinationLiquidity |-> FALSE]]

\* The orders analyzeOrder is called with: a chain pair, and the two amounts
\* parseFloat gives (cents).
AmountPairs ==
    {<<NaN, Num(250000)>>, <<Num(250000), Num(250000)>>, <<Num(250000), Num(240000)>>,
     <<Num(100000), Num(99150)>>, <<Num(250850), Num(250000)>>}
AnalyzerOrders ==
    {[srcChainId |-> c[1], dstChainId |-> c[2], srcAmount |-> a[1], dstAmount |-> a[2]] :
        c \in {<<"11155111", "cosmoshub-4">>, <<"cosmoshub-4", "11155111">>},
        a \in AmountPairs}

PendingPrice == [priceUsd |-> 0, source |-> "pending"]
IdleAnalysis ==
    [pc |-> "idle", order |-> <<>>, srcPrice |-> PendingPrice, dstPrice |-> PendingPrice,
     gas |-> fallbackGasEstimate, gasSource |-> "none", thrown |-> FALSE,
     decision |-> errorDecision]

InitPA ==
    /\ priceCache = EmptyMap
    /\ gasCache = EmptyMap
    /\ analysis = IdleAnalysis

\* The analyzer's clock.
TickPA ==
    /\ now + CACHE_TTL <= ClockStep + MaxCacheTicks * CACHE_TTL
    /\ now' = now + CACHE_TTL
    /\ UNCHANGED <<ccrVars, shut, accepted, resVars, paVars, hVars>>

\* The test with an entry of age CACHE_TTL still taken for fresh.
cacheFreshInclusive(cache, key) ==
    key \in DOMAIN cache /\ now - cache[key].timestamp <= CACHE_TTL

\* cached && (Date.now() - cached.timestamp) < CACHE_TTL
cacheFresh(cache, key) == key \in DOMAIN cache /\ now - cache[key].timestamp < CACHE_TTL

\* getTokenPrice up to its await: the cached price, or a fetch is started.
getTokenPrice(chainId) ==
    IF cacheFresh(priceCache, priceKey(chainId))
    THEN [priceUsd |-> priceCache[priceKey(chainId)].price, source |-> "cache"]
    ELSE PendingPrice

\* analyzeOrder is called: step 1 starts the two getTokenPrice calls.
analyzeOrder ==
    /\ analysis.pc = "idle"
    /\ \E order \in AnalyzerOrders :
          analysis' = [IdleAnalysis EXCEPT !.pc = "prices", !.order = order,
                                           !.srcPrice = getTokenPrice(order.srcChainId),
                                           !.dstPrice = getTokenPrice(order.dstChainId)]
    /\ UNCHANGED <<now, ccrVars, resVars, hVars, priceCache, gasCache>>

\* fetchTokenPrice returned (a price, or its default when the response has
\* none; either is stored in priceCache) or threw (getTokenPrice returns the
\* fallback price), for the source or the destination token.
fetchTokenPrice(side) ==
    /\ analysis.pc = "prices"
    /\ LET field == IF side = "source" THEN "srcPrice" ELSE "dstPrice"
           chainId == IF side = "source" THEN analysis.order.srcChainId
                      ELSE analysis.order.dstChainId IN
       /\ analysis[field].source = "pending"
       /\ \E ok \in BOOLEAN, price \in {FetchedPrice, DefaultPrice} :
             IF ok
             THEN /\ priceCache' = MapSet(priceCache, priceKey(chainId),
                                          [price |-> price, timestamp |-> now])
                  /\ analysis' = [analysis EXCEPT
                                     ![field] = [priceUsd |-> price, source |-> "api"]]
             ELSE /\ analysis' = [analysis EXCEPT
                                     ![field] = [priceUsd |-> FallbackPrice,
                                                 source |-> "fallback"]]
                  /\ UNCHANGED priceCache
    /\ UNCHANGED <<now, ccrVars, resVars, hVars, gasCache>>

\* Both prices are there: estimateGasCosts (cached estimate, or a new one that
\* is stored, or the fallback when estimation throws), then steps 2 to 6, and
\* the decision is returned; an exception anywhere in the try block gives the
\* decision of the catch block.
estimateGasCosts ==
    /\ analysis.pc = "prices"
    /\ analysis.srcPrice.source # "pending"
    /\ analysis.dstPrice.source # "pending"
    /\ LET order == analysis.order
           key == gasKey(order) IN
       \E gasOk \in BOOLEAN, thrown \in BOOLEAN :
          LET gasSource == IF cacheFresh(gasCache, key) THEN "cache"
                           ELSE IF gasOk THEN "estimated" ELSE "fallback"
              gas == IF gasSource = "cache" THEN gasCache[key].estimate
                     ELSE IF gasSource = "estimated" THEN gasEstimate(order)
                     ELSE fallbackGasEstimate IN
          /\ gasCache' = IF gasSource = "estimated"
                         THEN MapSet(gasCache, key, [estimate |-> gas, timestamp |-> now])
                         ELSE gasCache
          /\ analysis' = [analysis EXCEPT
                             !.pc = "returned", !.gas = gas, !.gasSource = gasSource,
                             !.thrown = thrown,
                             !.decision = IF thrown THEN errorDecision
                                          ELSE decide(order, analysis.srcPrice,
                                                      analysis.dstPrice, gas)]
    /\ UNCHANGED <<now, ccrVars, resVars, hVars, priceCache>>

\* The caller has the decision; the next call can be made.
analysisDone ==
    /\ analysis.pc = "returned"
    /\ analysis' = IdleAnalysis
    /\ UNCHANGED <<now, ccrVars, resVars, hVars, priceCache, gasCache>>

(***************************************************************************)
(* Part II. Resolver (processOrders, checkAndHandleTimeout,                *)
(* withdrawMakerAsset) and OrderMonitorService.                            *)
(***************************************************************************)
\* The number of processOrders calls that may be in flight at once (each is
\* started by a request handler).
NumCalls == 1
Calls == 1..NumCalls

Hashlocks == {Hash(x) : x \in Secrets}

\* Timelocks are epoch seconds; the values the orders carry fall between the
\* instants the clock takes.
TimelockValues == {(k * ClockStep) \div 1000 + 1 : k \in 1..2}

\* The immutables an order can arrive with (of the seven timelocks, the three
\* the Resolver reads).
ImmutablesInputs ==
    [hashlock : Hashlocks,
     timelocks : [srcWithdrawal : {ClockStep \div 1000 + 1}, srcCancellation : TimelockValues,
                  dstCancellation : TimelockValues]]

\* withdrawMakerAsset: const secret = "0x00...00" (placeholder)
PlaceholderSecret == "0x0000000000000000000000000000000000000000000000000000000000000000"

IdleCall == [pc |-> "idle", immutables |-> <<>>]
IdleWd == [pc |-> "idle", todo |-> <<>>]

InitRes ==
    /\ activeSwaps = EmptyMap
    /\ calls = [c \in Calls |-> IdleCall]
    /\ wd = IdleWd
    /\ pollInterval = FALSE
    /\ withdrawLog = {}
    /\ cancelLog = {}
    /\ srcEscrows = {}

(***************************************************************************)
(* Part IV. The shared chain handles (Provider.getProvider,                *)
(* Contract.getContract).                                                  *)
(***************************************************************************)
\* The chains of config.ts and their types.
ConfiguredChains == {"11155111", "pion-1"}
chainType(chainId) == IF chainId = "11155111" THEN "evm" ELSE "cosmos"

\* The callers of getProvider / getContract (each makes one call).
NumHandleCallers == 2
HandleCallers == 1..NumHandleCallers

IdleHandleCall == [pc |-> "idle", kind |-> "none", chainId |-> "", handle |-> <<>>]

InitHandles ==
    /\ providerCache = EmptyMap
    /\ contractCache = EmptyMap
    /\ handleLog = {}
    /\ handleCalls = [c \in HandleCallers |-> IdleHandleCall]

\* The handle a constructor or connect call yields: a new object each time
\* (n tells the objects of one kind and chain apart).
newHandle(kind, chainId) ==
    [kind |-> kind, chainId |-> chainId,
     n |-> Cardinality({h \in handleLog : h.kind = kind /\ h.chainId = chainId})]

\* getProvider up to its first await: the cached provider is returned; for an
\* EVM chain the JsonRpcProvider is built and stored at once; for a Cosmos
\* chain SigningCosmWasmClient.connect is awaited.
getProvider(c) ==
    /\ handleCalls[c].pc = "idle"
    /\ \E chainId \in ConfiguredChains :
          IF chainId \in DOMAIN providerCache
          THEN /\ handleCalls' = [handleCalls EXCEPT ![c] =
                      [pc |-> "returned", kind |-> "provider", chainId |-> chainId,
                       handle |-> providerCache[chainId]]]
               /\ UNCHANGED <<providerCache, handleLog>>
          ELSE IF chainType(chainId) = "evm"
          THEN LET provider == newHandle("provider", chainId) IN
               /\ handleLog' = handleLog \cup {provider}
               /\ providerCache' = MapSet(providerCache, chainId, provider)
               /\ handleCalls' = [handleCalls EXCEPT ![c] =
                      [pc |-> "returned", kind |-> "provider", chainId |-> chainId,
                       handle |-> provider]]
          ELSE /\ handleCalls' = [handleCalls EXCEPT ![c] =
                      [IdleHandleCall EXCEPT !.pc = "connecting", !.kind = "provider",
                                             !.chainId = chainId]]
               /\ UNCHANGED <<providerCache, handleLog>>
    /\ UNCHANGED <<now, ccrVars, resVars, paVars, contractCache>>

\* SigningCosmWasmClient.connect returned (the client is stored and returned)
\* or threw.
providerConnected(c) ==
    /\ handleCalls[c].pc = "connecting"
    /\ handleCalls[c].kind = "provider"
    /\ LET chainId == handleCalls[c].chainId
           provider == newHandle("provider", chainId) IN
       \E ok \in BOOLEAN :
          IF ok
          THEN /\ handleLog' = handleLog \cup {provider}
               /\ providerCache' = MapSet(providerCache, chainId, provider)
               /\ handleCalls' = [handleCalls EXCEPT ![c].pc = "returned",
                                                     ![c].handle = provider]
          ELSE /\ handleCalls' = [handleCalls EXCEPT ![c].pc = "threw"]
               /\ UNCHANGED <<providerCache, handleLog>>
    /\ UNCHANGED <<now, ccrVars, resVars, paVars, contractCache>>

\* getContract up to its first await: the cached client is returned, or
\* walletManager.getWallet(chainId) is awaited.
getContract(c) ==
    /\ handleCalls[c].pc = "idle"
    /\ \E chainId \in ConfiguredChains :
          handleCalls' = [handleCalls EXCEPT ![c] =
              IF chainId \in DOMAIN contractCache
              THEN [pc |-> "returned", kind |-> "contract", chainId |-> chainId,
                    handle |-> contractCache[chainId]]
              ELSE [IdleHandleCall EXCEPT !.pc = "wallet", !.kind = "contract",
                                          !.chainId = chainId]]
    /\ UNCHANGED <<now, ccrVars, resVars, paVars, providerCache, contractCache, handleLog>>

\* getWallet returned: for the EVM chain getContract throws (config.ts gives it
\* no contractAddress and no abi); for the Cosmos chain
\* SigningCosmWasmClient.connectWithSigner is awaited.
getWalletReturned(c) ==
    /\ handleCalls[c].pc = "wallet"
    /\ handleCalls' = [handleCalls EXCEPT ![c].pc =
           IF chainType(handleCalls[c].chainId) = "evm" THEN "threw" ELSE "connecting"]
    /\ UNCHANGED <<now, ccrVars, resVars, paVars, providerCache, contractCache, handleLog>>

\* connectWithSigner returned (the client is stored and returned) or threw.
contractConnected(c) ==
    /\ handleCalls[c].pc = "connecting"
    /\ handleCalls[c].kind = "contract"
    /\ LET chainId == handleCalls[c].chainId
           client == newHandle("contract", chainId) IN
       \E ok \in BOOLEAN :
          IF ok
          THEN /\ handleLog' = handleLog \cup {client}
               /\ contractCache' = MapSet(contractCache, chainId, client)
               /\ handleCalls' = [handleCalls EXCEPT ![c].pc = "returned",
                                                     ![c].handle = client]
          ELSE /\ handleCalls' = [handleCalls EXCEPT ![c].pc = "threw"]
               /\ UNCHANGED <<contractCache, handleLog>>
    /\ UNCHANGED <<now, ccrVars, resVars, paVars, providerCache>>

NextHandles ==
    \/ \E c \in HandleCallers : getProvider(c)
    \/ \E c \in HandleCallers : providerConnected(c)
    \/ \E c \in HandleCallers : getContract(c)
    \/ \E c \in HandleCallers : getWalletReturned(c)
    \/ \E c \in HandleCallers : contractConnected(c)

Init == InitCCR /\ InitRes /\ InitPA /\ InitHandles

\* The clock, for the Resolver's specification.
TickRes ==
    /\ now + ClockStep <= MaxTicks * ClockStep
    /\ now' = now + ClockStep
    /\ UNCHANGED <<ccrVars, shut, accepted, resVars, paVars, hVars>>

\* processOrders(orderArgs, chainId) is called: createSrcEscrow submits deploySrc
\* and awaits the receipt.
processOrders(c) ==
    /\ calls[c].pc = "idle"
    /\ \E im \in ImmutablesInputs :
          calls' = [calls EXCEPT ![c] = [pc |-> "deploying", immutables |-> im]]
    /\ UNCHANGED <<now, ccrVars, paVars, hVars, activeSwaps, wd, pollInterval, withdrawLog,
                   cancelLog, srcEscrows>>

\* The Swap record processOrders builds (createdAt, which nothing reads, is left
\* out).
newSwap(immutables) ==
    [immutables |-> immutables, srcEscrow |-> "", dstEscrow |-> "",
     chainId |-> "11155111", status |-> "active"]

\* addSwapOrder: this.activeSwaps.set(swap.immutables.hashlock, swap)
addSwapOrder(swaps, swap) == MapSet(swaps, swap.immutables.hashlock, swap)

\* removeSwapFromTracking: this.activeSwaps.delete(hashlock)
removeSwapFromTracking(swaps, hashlock) == MapDelete(swaps, hashlock)

\* createSrcEscrow returned (the swap is built and added) or threw (processOrders
\* rejects).
createSrcEscrow(c) ==
    /\ calls[c].pc = "deploying"
    /\ \E ok \in BOOLEAN :
          IF ok
          THEN /\ activeSwaps' = addSwapOrder(activeSwaps, newSwap(calls[c].immutables))
               /\ srcEscrows' = srcEscrows \cup {calls[c].immutables.hashlock}
          ELSE UNCHANGED <<activeSwaps, srcEscrows>>
    /\ calls' = [calls EXCEPT ![c] = IdleCall]
    /\ UNCHANGED <<now, ccrVars, paVars, hVars, wd, pollInterval, withdrawLog, cancelLog>>

\* OrderMonitorService.start / stop.
start ==
    /\ ~pollInterval
    /\ pollInterval' = TRUE
    /\ UNCHANGED <<now, ccrVars, paVars, hVars, activeSwaps, calls, wd, withdrawLog, cancelLog, srcEscrows>>

stop ==
    /\ pollInterval
    /\ pollInterval' = FALSE
    /\ UNCHANGED <<now, ccrVars, paVars, hVars, activeSwaps, calls, wd, withdrawLog, cancelLog, srcEscrows>>

\* checkAndHandleTimeout: const now = Math.floor(Date.now() / 1000)
nowSeconds == now \div 1000

\* The destination test made against the source timelock (the two tests of
\* checkAndHandleTimeout confused).
dstCancellationPassedOnSrcTimelock(t, swap) == t > swap.immutables.timelocks.srcCancellation

\* The two tests of checkAndHandleTimeout.
srcCancellationPassed(t, swap) == t > swap.immutables.timelocks.srcCancellation
dstCancellationPassed(t, swap) == t > swap.immutables.timelocks.dstCancellation

\* The poll interval fires: checkAndHandleTimeout goes through activeSwaps
\* without suspension (cancelSwapOnSource and cancelSwapOnDestination are not
\* awaited, and return at once).
checkAndHandleTimeout ==
    /\ pollInterval
    /\ LET src == {h \in DOMAIN activeSwaps : srcCancellationPassed(nowSeconds, activeSwaps[h])}
           dst == {h \in DOMAIN activeSwaps : dstCancellationPassed(nowSeconds, activeSwaps[h])} IN
       /\ cancelLog' = cancelLog \cup {[hashlock |-> h, side |-> "source"] : h \in src}
                                 \cup {[hashlock |-> h, side |-> "destination"] : h \in dst}
       /\ activeSwaps' = [h \in (DOMAIN activeSwaps) \ (src \cup dst) |-> activeSwaps[h]]
    /\ UNCHANGED <<now, ccrVars, paVars, hVars, calls, wd, pollInterval, withdrawLog, srcEscrows>>

\* The loop of withdrawMakerAsset over its snapshot runs without suspension over
\* the swaps whose srcWithdrawal is still ahead, up to the first one it calls
\* withdraw for.
\* The loop without the test of srcWithdrawal: every swap of the snapshot is
\* withdrawn from.
SkipEarlyNever(todo) == todo

RECURSIVE SkipEarly(_)
SkipEarly(todo) ==
    IF todo = <<>> THEN <<>>
    ELSE IF nowSeconds < Head(todo).immutables.timelocks.srcWithdrawal THEN SkipEarly(Tail(todo))
    ELSE todo

\* The withdraw call made for a swap: withdraw(swap.srcEscrow, secret, ...).
withdrawEntry(swap) ==
    [hashlock |-> swap.immutables.hashlock, escrow |-> swap.srcEscrow,
     secret |-> PlaceholderSecret]

\* withdrawMakerAsset going through `todo`.
WithdrawLoop(todo) ==
    LET rest == SkipEarly(todo) IN
    IF rest = <<>> THEN IdleWd ELSE [pc |-> "withdrawing", todo |-> rest]

\* withdrawMakerAsset is called: the snapshot of the swaps with status 'active'
\* is taken and the loop starts.
withdrawMakerAsset ==
    /\ wd.pc = "idle"
    /\ \E snapshot \in Perms({activeSwaps[h] : h \in {k \in DOMAIN activeSwaps :
                                                          activeSwaps[k].status = "active"}}) :
          LET w == WithdrawLoop(snapshot) IN
          /\ wd' = w
          /\ withdrawLog' = IF w.pc = "withdrawing"
                            THEN withdrawLog \cup {withdrawEntry(Head(w.todo))}
                            ELSE withdrawLog
    /\ UNCHANGED <<now, ccrVars, paVars, hVars, activeSwaps, calls, pollInterval, cancelLog, srcEscrows>>

\* withdraw returned (the swap is marked completed and removed from tracking by
\* its hashlock) or threw (logged); the loop goes on.
withdraw ==
    /\ wd.pc = "withdrawing"
    /\ \E ok \in BOOLEAN :
          LET w == WithdrawLoop(Tail(wd.todo)) IN
          /\ activeSwaps' = IF ok
                            THEN removeSwapFromTracking(activeSwaps,
                                                        Head(wd.todo).immutables.hashlock)
                            ELSE activeSwaps
          /\ srcEscrows' = IF ok THEN srcEscrows \ {Head(wd.todo).immutables.hashlock}
                           ELSE srcEscrows
          /\ wd' = w
          /\ withdrawLog' = IF w.pc = "withdrawing"
                            THEN withdrawLog \cup {withdrawEntry(Head(w.todo))}
                            ELSE withdrawLog
    /\ UNCHANGED <<now, ccrVars, paVars, hVars, calls, pollInterval, cancelLog>>

NextCCR ==
    \/ Tick
    \/ CreateOrder
    \/ MineTransaction
    \/ startMonitoring
    \/ \E p \in Pollers : processNewOrders(p)
    \/ \E p \in Pollers : fetchPendingOrders(p)
    \/ \E p \in Pollers : analyzeAndExecuteOrder(p)
    \/ \E p \in Pollers : lockSourceEscrow(p)
    \/ \E p \in Pollers : lockDestinationEscrow(p)
    \/ \E p \in Pollers : waitForEscrowConfirmations(p)
    \/ \E p \in Pollers : revealSecretAndClaim(p)
    \/ \E p \in Pollers : claimFromEscrow(p)
    \/ \E p \in Pollers : handleFailedSwap(p)
    \/ \E p \in Pollers : cancelEscrows(p)
    \/ checkActiveOrders
    \/ checkActiveOrdersDelete
    \/ shutdown
    \/ shutdownForceCleanup
    \/ shutdownReturn
    \/ submitOrder

SpecCCR == Init /\ [][NextCCR]_vars

NextRes ==
    \/ TickRes
    \/ \E c \in Calls : processOrders(c)
    \/ \E c \in Calls : createSrcEscrow(c)
    \/ start
    \/ stop
    \/ checkAndHandleTimeout
    \/ withdrawMakerAsset
    \/ withdraw

\* The Resolver runs on its own: the CrossChainResolver's workload is fixed.
InitResolver ==
    Init /\ workload = [orders |-> Orders, pollers |-> {1}, sigint |-> FALSE,
                        restart |-> FALSE, posts |-> {}]

SpecRes == InitResolver /\ [][NextRes]_vars

NextPA ==
    \/ TickPA
    \/ analyzeOrder
    \/ \E side \in Sides : fetchTokenPrice(side)
    \/ estimateGasCosts
    \/ analysisDone

SpecPA == InitResolver /\ [][NextPA]_vars

SpecHandles == InitResolver /\ [][NextHandles]_vars

(***************************************************************************)
(* Properties.                                                             *)
(***************************************************************************)
\* An orchestration (executeAtomicSwap) of poller p is in flight.
InFlight(p) ==
    poll[p].pc \in {"srcLocking", "dstLocking", "waiting", "claiming", "claimSent",
                    "cancelSrc", "cancelDst"}

\* A lock transaction is confirmed: mined with success on an EVM chain, included
\* at broadcast on a Cosmos chain.
Confirmed(tx) == tx \in {"success", "cosmos"}

\* C1: the claim on the source escrow (revealSecretAndClaim) is never invoked
\* before both the source lock and the destination lock of the swap have been
\* submitted and confirmed.
C1_ClaimAfterBothConfirmed ==
    \A p \in Pollers :
        poll[p].pc = "claimSent" => Confirmed(poll[p].srcTx) /\ Confirmed(poll[p].dstTx)

\* C2: when the same order has been admitted twice (two orchestrations of it in
\* flight, or one in flight after another finished), activeOrders holds its
\* record at every moment an orchestration of it is running.
C2_OneRecordWhenAdmittedTwice ==
    \A p \in Pollers :
        InFlight(p) =>
            LET o == Head(poll[p].batch) IN
            ((\E q \in Pollers \ {p} : InFlight(q) /\ Head(poll[q].batch) = o)
                \/ (\E d \in doneLog : d.order = o))
            => o \in DOMAIN activeOrders

\* C3: an order that is already being orchestrated is not orchestrated a second
\* time: no two polling ticks are in executeAtomicSwap for the same order.
C3_SecondAdmissionNoOp ==
    \A p, q \in Pollers :
        (p # q /\ InFlight(p) /\ InFlight(q)) => Head(poll[p].batch) # Head(poll[q].batch)

\* C4: a swap whose source lock succeeded and whose destination lock failed is
\* never completed and ends with a refund invoked on its source escrow, on an
\* EVM source chain and on a Cosmos source chain alike.
C4_PartialFailureReclaimsSource ==
    \A d \in doneLog :
        (d.srcLocked /\ ~d.dstLocked) =>
            /\ d.result # "completed"
            /\ \E r \in refundLog : r.order = d.order /\ r.side = "source"

\* C5: the hashlock passed to the source lock equals the hashlock passed to the
\* destination lock, and both equal the order's secretHash.
C5_SameHashlockBothSides ==
    \A p \in Pollers :
        (InFlight(p) /\ poll[p].srcLock.submitted /\ poll[p].dstLock.submitted) =>
            /\ poll[p].srcLock.hashlock = poll[p].dstLock.hashlock
            /\ poll[p].srcLock.hashlock = frontend[Head(poll[p].batch)].secretHash

\* C6: the secret presented to the claim on the source escrow is the pre-image
\* of the swap's hashlock.
C6_ClaimSecretIsPreimage ==
    \A p \in Pollers :
        poll[p].pc = "claimSent" =>
            Hash(poll[p].secret) = frontend[Head(poll[p].batch)].secretHash

\* C7: the timelock attached to the destination lock is strictly earlier than
\* the timelock attached to the source lock.
C7_DstTimelockBeforeSrc ==
    \A p \in Pollers :
        (poll[p].srcLock.htlc /\ poll[p].dstLock.htlc) =>
            poll[p].dstLock.timelock < poll[p].srcLock.timelock

\* C8: every tracked swap has dstCancellation < srcCancellation (a swap with
\* dstCancellation >= srcCancellation is never inserted into activeSwaps).
C8_TrackedSwapsOrdered ==
    \A h \in DOMAIN activeSwaps :
        activeSwaps[h].immutables.timelocks.dstCancellation
            < activeSwaps[h].immutables.timelocks.srcCancellation

\* C9: cancellation is idempotent: no refund transaction is submitted on an
\* escrow that was never locked, and an escrow gets at most one refund
\* transaction.
C9_CancelIdempotent ==
    \A r \in refundLog : r.locked /\ r.seq = 0

\* C10: a tick of checkAndHandleTimeout at a time past the dstCancellation of a
\* tracked swap cancels the swap on the destination and removes it from
\* activeSwaps: the swap is not tracked after the tick.
C10_DstTimeoutCancelsAndRemoves ==
    [][checkAndHandleTimeout =>
          \A h \in DOMAIN activeSwaps :
              nowSeconds > activeSwaps[h].immutables.timelocks.dstCancellation =>
                  /\ h \notin DOMAIN activeSwaps'
                  /\ [hashlock |-> h, side |-> "destination"] \in cancelLog']_vars

\* A swap was cancelled on the destination only (its srcCancellation was still
\* ahead) and is no longer tracked.
C10_Witness ==
    \E c \in cancelLog :
        /\ c.side = "destination"
        /\ [hashlock |-> c.hashlock, side |-> "source"] \notin cancelLog
        /\ c.hashlock \notin DOMAIN activeSwaps

\* C11: checkActiveOrders never cancels an order while executeAtomicSwap for the
\* same order is between two of its steps.
C11_SupervisorNeverRacesOrchestrator ==
    chk.pc = "deleting" =>
        \A p \in Pollers : InFlight(p) => Head(poll[p].batch) # chk.cur

\* A withdraw call for the swap of hashlock h is pending or still to be made by
\* the withdrawMakerAsset call in flight.
WithdrawAhead(h) ==
    wd.pc = "withdrawing" /\ \E i \in 1..Len(wd.todo) : wd.todo[i].immutables.hashlock = h

\* C12: a swap is never removed from active tracking while its source escrow is
\* neither claimed nor cancelled with nothing left to act on it: every source
\* escrow that is deployed and not withdrawn from belongs to a tracked swap, or
\* to one withdrawMakerAsset is still going to withdraw from, or to one
\* cancelSwapOnSource was called for.
C12_NoEscrowLeftBehind ==
    \A h \in srcEscrows :
        \/ h \in DOMAIN activeSwaps
        \/ WithdrawAhead(h)
        \/ [hashlock |-> h, side |-> "source"] \in cancelLog

\* C13: when the source lock of a swap failed, the failure handling of that swap
\* submits no action on the destination chain: the cancelEscrows call of an
\* orchestration whose lockSourceEscrow threw adds no destination refund.
C13_NoDestinationActionAfterSourceFailure ==
    [][\A p \in Pollers :
          (cancelEscrows(p) /\ poll[p].srcTx = "none") =>
              ~\E r \in refundLog' \ refundLog : r.side = "destination"]_vars

\* A number is at least k: never so for NaN.
AtLeast(a, k) == ~a.nan /\ a.v >= k

\* The margin netProfit / srcAmountUsd is at least the minimum percentage.
MarginAtLeastMinimum(netProfitUsd, srcAmountUsd) ==
    /\ ~netProfitUsd.nan
    /\ ~srcAmountUsd.nan
    /\ srcAmountUsd.v > 0
    /\ netProfitUsd.v * 1000 >= MIN_PROFIT_MARGIN_TENTHS * srcAmountUsd.v

\* The liquidity check of a decision passes.
LiquidityPasses(d) ==
    d.liquidityStatus.hasSourceLiquidity /\ d.liquidityStatus.hasDestinationLiquidity

\* C14: the decision analyzeOrder returns has shouldFill = true if and only if
\* net profit >= 5 USD and margin >= 0.5% and the liquidity check passes.
C14_FillIffThresholdsAndLiquidity ==
    analysis.pc = "returned" =>
        LET d == analysis.decision IN
        d.shouldFill <=> (/\ AtLeast(d.expectedProfitUsd, MIN_PROFIT_USD * 100)
                          /\ MarginAtLeastMinimum(d.expectedProfitUsd, d.srcAmountUsd)
                          /\ LiquidityPasses(d))

\* analyzeOrder returned a decision it evaluated (not the one of its catch block).
Evaluated == analysis.pc = "returned" /\ ~analysis.thrown

\* C15: the net profit of a decision is source USD value minus destination USD
\* value minus the total of the three fee estimates (source lock, destination
\* lock and claim).
C15_NetProfitCountsAllThreeFees ==
    (Evaluated /\ ~analysis.order.srcAmount.nan /\ ~analysis.order.dstAmount.nan) =>
        LET d == analysis.decision
            fees == analysis.gas.sourceGasUsd + analysis.gas.destinationGasUsd
                        + analysis.gas.claimGasUsd IN
        d.expectedProfitUsd = Num(d.srcAmountUsd.v - d.dstAmountUsd.v - fees)

\* The orders a chain action was submitted for, or that have a record in
\* activeOrders, or that an orchestration is running for.
Orchestrated ==
    {e[1] : e \in lockedEscrows} \cup {r.order : r \in refundLog} \cup DOMAIN activeOrders
        \cup {Head(poll[p].batch) : p \in {q \in Pollers : InFlight(q)}}

Reasons ==
    {"Profitable order", "Insufficient profit", "Low margin",
     "Insufficient destination liquidity", "Unknown rejection reason", "Analysis error"}

C18_FallbacksFeedTheSameRule ==
    (Evaluated /\ (analysis.srcPrice.source = "fallback"
                      \/ analysis.dstPrice.source = "fallback"
                      \/ analysis.gasSource = "fallback")) =>
        LET d == analysis.decision IN
        /\ analysis.srcPrice.source = "fallback" =>
              d.srcAmountUsd = Times(analysis.order.srcAmount, FallbackPrice)
        /\ analysis.dstPrice.source = "fallback" =>
              d.dstAmountUsd = Times(analysis.order.dstAmount, FallbackPrice)
        /\ analysis.gasSource = "fallback" => d.estimatedGasCost = 350
        /\ d.expectedProfitUsd
              = Minus(Minus(d.srcAmountUsd, d.dstAmountUsd), Num(d.estimatedGasCost))
        /\ d.reason # "Analysis error"
        /\ d.shouldFill <=> (/\ ~LessThan(d.expectedProfitUsd, Num(MIN_PROFIT_USD * 100))
                             /\ ~marginBelowMinimum(d.expectedProfitUsd, d.srcAmountUsd)
                             /\ LiquidityPasses(d))

\* Both price fetches and the gas estimation failed, and the order was admitted
\* on the fallback values.
C18_Witness ==
    /\ Evaluated
    /\ analysis.srcPrice.source = "fallback"
    /\ analysis.dstPrice.source = "fallback"
    /\ analysis.gasSource = "fallback"
    /\ analysis.decision.shouldFill
    /\ ~analysis.order.srcAmount.nan

\* C19: an order that validateOrder rejects (here: its deadline has already
\* passed) is rejected at intake on the polling path too: fetchPendingOrders
\* hands no such order to the processing loop.
C19_InvalidOrdersRejectedAtIntake ==
    [][\A p \in Pollers :
          fetchPendingOrders(p) =>
              \A i \in 1..Len(poll'[p].batch) : validateOrder(frontend[poll'[p].batch[i]])]_vars

\* C20: lockSourceEscrow is never invoked at a time later than the order's
\* deadline (it is invoked by executeAtomicSwap as soon as the order is
\* admitted).
C20_NoSourceLockAfterDeadline ==
    [][\A p \in Pollers :
          (analyzeAndExecuteOrder(p) /\ poll'[p].pc = "srcLocking") =>
              ~(now > frontend[Head(poll[p].batch)].deadline)]_vars

C22_FailedChainCallIsRetried ==
    [][\A p \in Pollers :
          poll[p].pc \in {"srcLocking", "dstLocking", "claimSent"}
              => poll'[p].pc # "cancelSrc"]_vars

\* C23: when shutdown returns, no order still in activeOrders has an escrow
\* that was locked and for which no refund was submitted after the lock; and
\* while shutdown goes through the remaining orders, the orchestration of an
\* order it has called handleFailedSwap for submits no lock and no claim.
C23_ShutdownLeavesNothingMidLock ==
    [][/\ (shut.pc # "returned" /\ shut'.pc = "returned") =>
             \A o \in DOMAIN activeOrders', side \in Sides :
                 <<o, side>> \in lockedEscrows' =>
                     \E r \in refundLog' : r.order = o /\ r.side = side /\ r.locked
       /\ \A p \in Pollers :
             (InFlight(p) /\ Head(poll[p].batch) \in shut.forced) =>
                 /\ lockedEscrows' = lockedEscrows
                 /\ ~(poll[p].pc = "claiming" /\ poll'[p].pc = "claimSent")]_vars

\* C24: when a cancel issued by checkActiveOrders has failed, the order stays
\* in activeOrders (to be cancelled again on the next tick): the step that
\* follows the failed handleFailedSwap leaves the order tracked.
C24_FailedCancelKeepsSwapTracked ==
    [][(chk.pc = "deleting" /\ chk.cancelFailed /\ chk' # chk)
          => chk.cur \in DOMAIN activeOrders']_vars

\* C25: a tick of checkAndHandleTimeout calls the source cancel for a swap only
\* past its srcCancellation and with its source escrow deployed and not
\* withdrawn from, and the destination cancel only past its dstCancellation
\* and with its destination escrow locked: no cancel for a leg never locked.
C25_CancelOnlyLockedUnclaimedLegs ==
    [][\A c \in cancelLog' \ cancelLog :
          LET swap == activeSwaps[c.hashlock] IN
          IF c.side = "source"
          THEN /\ nowSeconds > swap.immutables.timelocks.srcCancellation
               /\ c.hashlock \in srcEscrows
          ELSE /\ nowSeconds > swap.immutables.timelocks.dstCancellation
               /\ swap.dstEscrow # ""]_vars

\* C26: the status route reports 'executing' exactly for the hashes in
\* activeOrders, and 'completed' only for an order whose orchestration
\* completed (never for one that was not submitted, was rejected, failed or
\* was cancelled).
C26_StatusQueryReportsLifecycle ==
    \A h \in QueryHashes :
        /\ orderStatus(h) = "executing" <=> h \in DOMAIN activeOrders
        /\ orderStatus(h) = "completed" =>
               \E d \in doneLog : d.order = h /\ d.result = "completed"

\* C27: the steps of one swap run in order: the destination lock is submitted
\* only once the source lock is confirmed, and the claim only once the
\* destination lock is confirmed.
C27_StepsInStateMachineOrder ==
    [][\A p \in Pollers :
          /\ (poll[p].pc = "dstLocking" /\ poll'[p].pc = "waiting")
                 => Confirmed(poll[p].srcTx)
          /\ (poll[p].pc = "claiming" /\ poll'[p].pc = "claimSent")
                 => Confirmed(poll[p].dstTx)]_vars

\* C28: a swap that failed after one or both locks were submitted has a refund
\* submitted on every escrow that was locked, on an EVM chain and on a Cosmos
\* chain alike, by the time its failure handling has ended.
C28_FailurePathCancelsEveryLockedEscrow ==
    \A d \in doneLog, side \in Sides :
        (d.result = "failed" /\ <<d.order, side>> \in lockedEscrows) =>
            \E r \in refundLog : r.order = d.order /\ r.side = side

\* C29 (removal as completed): an order leaves activeOrders as completed only
\* after both legs are settled: when claimFromEscrow returns and the order is
\* deleted, both lock transactions are confirmed on their chains and the
\* claim was a transaction on the source escrow.
C29_CompletedOnlyWhenBothLegsSettled ==
    [][\A p \in Pollers :
          (poll[p].pc = "claimSent" /\ poll'[p].pc \notin {"claimSent", "cancelSrc"}) =>
              /\ Confirmed(poll[p].srcTx)
              /\ Confirmed(poll[p].dstTx)
              /\ ~typeofString(frontend[Head(poll[p].batch)].srcChainId)]_vars

\* C30: during the confirmation wait, isTransactionConfirmed answers true for
\* a lock transaction only if the chain has it final and successful, on the
\* source side and on the destination side.
C30_ConfirmedOnlyWhenChainSaysSo ==
    \A p \in Pollers :
        poll[p].pc = "waiting" =>
            /\ isTransactionConfirmed(poll[p].srcTx, "source") => Confirmed(poll[p].srcTx)
            /\ isTransactionConfirmed(poll[p].dstTx, "destination") => Confirmed(poll[p].dstTx)

\* C31: swaps are independent: while the orchestration of one order is in its
\* confirmation wait, the next order of the same batch does not have to wait
\* for it: its analysis can return and admit it.
C31_SecondOrderNotHeldBehindFirst ==
    \A p \in Pollers :
        (poll[p].pc = "waiting" /\ Len(poll[p].batch) > 1
            /\ poll[p].batch[2] \notin processedOrders) =>
            \E q \in Pollers :
                ENABLED (analyzeAndExecuteOrder(q) /\ Head(poll[q].batch) = poll[p].batch[2])

\* The cache has an entry for the key whose age is strictly less than the TTL.
YoungerThanTtl(cache, key) ==
    key \in DOMAIN cache /\ now - cache[key].timestamp < CACHE_TTL

\* The price analyzeOrder holds for a side, and the cache key of that side.
PriceOf(a, side) == IF side = "source" THEN a.srcPrice ELSE a.dstPrice
PriceKeyOf(a, side) ==
    priceKey(IF side = "source" THEN a.order.srcChainId ELSE a.order.dstChainId)

C33_FallbackNeverCached ==
    /\ \A k \in DOMAIN priceCache : priceCache[k].price # FallbackPrice
    /\ \A k \in DOMAIN gasCache : gasCache[k].estimate # fallbackGasEstimate

\* C34: each chain's provider and contract client is created at most once, and
\* every call that returned holds that one handle.
C34_HandlesCreatedOnce ==
    /\ \A h \in handleLog : h.n = 0
    /\ \A c, d \in HandleCallers :
          (handleCalls[c].pc = "returned" /\ handleCalls[d].pc = "returned"
              /\ handleCalls[c].kind = handleCalls[d].kind
              /\ handleCalls[c].chainId = handleCalls[d].chainId)
              => handleCalls[c].handle = handleCalls[d].handle

\* C35: after any sequence of startMonitoring and shutdown calls, at most one
\* pair of interval loops (order polling, active-order check) is running.
C35_AtMostOnePollingLoop ==
    isRunning => timers <= 1

\* An order has been returned by a fetchPendingOrders call: it is in the batch
\* of a processNewOrders call, or that call is done with it.
Fetched(o) ==
    \/ o \in processedOrders
    \/ \E d \in decisionLog : d.orderHash = o
    \/ \E p \in Pollers : \E i \in 1..Len(poll[p].batch) : poll[p].batch[i] = o

\* C36: order polling never loses an order: every pending order at the
\* frontend has been returned by a fetch or can still be: it is newer than
\* lastCheckedTimestamp, or newer than the `since` of a request in flight.
C36_PollingNeverLosesAnOrder ==
    \A o \in DOMAIN frontend :
        \/ Fetched(o)
        \/ frontend[o].createdAt > lastCheckedTimestamp
        \/ \E p \in Pollers : poll[p].pc = "fetching" /\ frontend[o].createdAt > poll[p].since

\* C37: an order submitOrder accepted is picked up by the processing loop:
\* once accepted it is among the pending orders the loop fetches from, or the
\* loop has fetched it already.
C37_AcceptedOrderIsQueued ==
    \A o \in accepted : o \in DOMAIN frontend \/ Fetched(o)

\* C38: an order whose srcAmount or dstAmount is not a number is never given
\* shouldFill = true by analyzeOrder.
C38_NotANumberNeverFilled ==
    (analysis.pc = "returned"
        /\ (analysis.order.srcAmount.nan \/ analysis.order.dstAmount.nan))
        => ~analysis.decision.shouldFill

\* A step of withdrawMakerAsset: the call starts, or the withdraw it awaits
\* returns or throws.
WithdrawStep == wd' # wd

\* C39: withdrawMakerAsset calls withdraw for a swap only when the current time
\* (in seconds) is at or past the swap's srcWithdrawal; when the withdraw
\* succeeds the swap is no longer tracked; when it fails activeSwaps is left as
\* it was; and in both cases every remaining swap of the snapshot that is due
\* is still gone through.
C39_WithdrawOnlyWhenDueAndLoopGoesOn ==
    [][WithdrawStep =>
          /\ wd'.pc = "withdrawing"
                => nowSeconds >= Head(wd'.todo).immutables.timelocks.srcWithdrawal
          /\ wd.pc = "withdrawing" =>
                LET swap == Head(wd.todo)
                    rest == Tail(wd.todo) IN
                /\ srcEscrows' = srcEscrows => activeSwaps' = activeSwaps
                /\ srcEscrows' # srcEscrows
                      => /\ swap.immutables.hashlock \notin DOMAIN activeSwaps'
                         /\ swap.immutables.hashlock \notin srcEscrows'
                /\ \A i \in 1..Len(rest) :
                      nowSeconds >= rest[i].immutables.timelocks.srcWithdrawal
                          => /\ wd'.pc = "withdrawing"
                             /\ \E j \in 1..Len(wd'.todo) : wd'.todo[j] = rest[i]]_vars

\* One swap was withdrawn from and is gone from tracking, the withdraw for
\* another failed and that swap is still tracked as active, and the call is over.
C39_Witness ==
    /\ wd.pc = "idle"
    /\ \E e1, e2 \in withdrawLog :
          /\ e1.hashlock \notin srcEscrows
          /\ e1.hashlock \notin DOMAIN activeSwaps
          /\ e2.hashlock \in DOMAIN activeSwaps
          /\ activeSwaps[e2.hashlock].status = "active"
          /\ nowSeconds >= activeSwaps[e2.hashlock].immutables.timelocks.srcWithdrawal

====
